---- MODULE Spec2Model ----
(***************************************************************************)
(* Model of the two Nagios probes of nagios-nomad:                         *)
(*   cmd/check_nomad_long_running     (findLongRunningJobs and its main)   *)
(*   cmd/check_nomad_unplaceable_jobs (getEvaluations, getResourcesForJob, *)
(*                                     getNodes, getResourcesForNode,      *)
(*                                     findUnplaceableJobs and its main)   *)
(* The Nomad API client is the environment: every remote query answers     *)
(* with a value drawn from a bounded set, or with an error.                *)
(* Resource quantities are Go ints (64 bit); the quantities drawn here are *)
(* small, so no sum or difference leaves the int range.                    *)
(* p.Verbose only prints detail lines and is not modelled.                 *)
(***************************************************************************)
EXTENDS Integers, Sequences, FiniteSets, TLC

VARIABLES
    probe,            \* which binary runs: "long" or "unplaceable"
    pc,               \* position of the process
    queries,          \* remote queries issued so far, in order, with their outcome
    code,             \* exit status handed to p.Exit / p.Fatal ("none" while running)
    message,          \* message handed to p.Exit
    i,                \* index of the loop the process is in
    \* check_nomad_long_running
    thresDate,        \* findLongRunningJobs' thresDate
    jobs,             \* findLongRunningJobs' jobs (the listing)
    longRunningAlloc, \* findLongRunningJobs' result
    allocLog,         \* history: outcome of the loop body for each listed job
    \* check_nomad_unplaceable_jobs
    evals,            \* getEvaluations' evals (the listing), until it returns
    failingJobs,      \* getEvaluations' result
    origin,           \* history: the evaluation and task group each record came from
    jobLog,           \* history: outcome of the loop body for each evaluation
    nodes,            \* getNodes' nodes (the listing)
    mynodes,          \* getNodes' result
    nodeLog,          \* history: the answer of each node-detail query
    unplaceable,      \* main's unplaceable
    input             \* the arguments drawn for a function applied on its own

vars == <<probe, pc, queries, code, message, i, thresDate, jobs, longRunningAlloc,
          allocLog, evals, failingJobs, origin, jobLog, nodes, mynodes, nodeLog,
          unplaceable, input>>

longVars == <<thresDate, jobs, longRunningAlloc, allocLog>>
unplVars == <<evals, failingJobs, origin, jobLog, nodes, mynodes, nodeLog, unplaceable>>

----------------------------------------------------------------------------
(* Bounds *)

MaxJobs == 2
MaxAllocs == 2
MaxEvals == 2
MaxNodes == 2
MaxListLen == 2
MaxTaskGroups == 2
MaxTasks == 2
MaxRes == 1

NIL == "nil"

----------------------------------------------------------------------------
(* Generic helpers *)

SeqsUpTo(S, n) == UNION {[1..k -> S] : k \in 0..n}

RECURSIVE SumSeq(_)
SumSeq(s) == IF s = <<>> THEN 0 ELSE Head(s) + SumSeq(Tail(s))

RECURSIVE ConcatAll(_)
ConcatAll(ss) == IF ss = <<>> THEN <<>> ELSE Head(ss) \o ConcatAll(Tail(ss))

\* the enumerations of a finite set, each element once
Orderings(S) ==
    {s \in [1..Cardinality(S) -> S] : \A x \in S : \E k \in DOMAIN s : s[k] = x}

----------------------------------------------------------------------------
(* Errors of the API client *)

ErrJobNotFound == "Unexpected response code: 404 (job not found)"
ErrOther == "Unexpected response code: 500 (rpc error)"
Errors == {ErrJobNotFound, ErrOther}

\* strings.Contains(err.Error(), "job not found")
\* (faulty variants: every error tolerated, no error tolerated)
IsJobNotFoundAlwaysMut(err) == TRUE
IsJobNotFoundNeverMut(err) == FALSE
IsJobNotFound(err) == err = ErrJobNotFound

Query(op, id, err) == [op |-> op, id |-> id, err |-> err]

----------------------------------------------------------------------------
(* Exit statuses (go-nagios) *)

OK == "OK"
WARNING == "WARNING"
CRITICAL == "CRITICAL"
UNKNOWN == "UNKNOWN"

\* message: a format string and its arguments
NoMessage == [text |-> "", args |-> <<>>]

----------------------------------------------------------------------------
(* check_nomad_long_running *)

NanosPerSec == 1000000000

\* time.Unix(sec, nsec): nsec normalised into [0, 1e9)
Unix(sec, nsec) ==
    [sec |-> sec + (nsec \div NanosPerSec), nsec |-> nsec % NanosPerSec]

\* t.Before(u) (faulty variant: not strict)
BeforeOrEqualMut(t, u) == t.sec < u.sec \/ (t.sec = u.sec /\ t.nsec <= u.nsec)
Before(t, u) == t.sec < u.sec \/ (t.sec = u.sec /\ t.nsec < u.nsec)

ThresNanos == {2000000000, 2000000001}
CreateTimes == {1999999999, 2000000000, 2000000001}
SubmitTimes == {1000000000}
JobStatuses == {"running", "pending", "dead"}
ClientStatuses == {"running"}

\* the listings client.Jobs().List can answer with: job IDs are unique
JobListings ==
    {[k \in DOMAIN st |-> [ID |-> k, Status |-> st[k].s, SubmitTime |-> st[k].t]] :
        st \in SeqsUpTo([s : JobStatuses, t : SubmitTimes], MaxJobs)}

\* the listings client.Jobs().Allocations(id, true, nil) can answer with:
\* allocation IDs are unique over the cluster
AllocListings(id) ==
    {[k \in DOMAIN as |-> [ID |-> <<id, k>>, CreateTime |-> as[k].c,
                           ClientStatus |-> as[k].s]] :
        as \in SeqsUpTo([c : CreateTimes, s : ClientStatuses], MaxAllocs)}

\* the loop over one job's allocations: the records appended to longRunningAlloc
jobAlloc(job, alloc) ==
    [jobID |-> job.ID,
     jobDate |-> Unix(0, job.SubmitTime),
     allocID |-> alloc.ID,
     allocDate |-> Unix(0, alloc.CreateTime),
     allocStatus |-> alloc.ClientStatus]

RECURSIVE CheckAllocations(_, _, _)
CheckAllocations(job, allocations, thres) ==
    IF allocations = <<>> THEN <<>>
    ELSE LET alloc == Head(allocations)
             allocDate == Unix(0, alloc.CreateTime)
             rest == CheckAllocations(job, Tail(allocations), thres)
         IN  IF Before(allocDate, thres) THEN <<jobAlloc(job, alloc)>> \o rest
             ELSE rest

\* main's choice of code and message from the scan's result
\* (faulty variant: the count is ignored)
LongExitAlwaysOKMut(result) ==
    [code |-> OK, message |-> [text |-> "OK - long running jobs", args |-> <<>>]]
LongExit(result) ==
    IF Len(result) > 0
    THEN [code |-> WARNING,
          message |-> [text |-> "WARNING - Found %d long running jobs",
                       args |-> <<Len(result)>>]]
    ELSE [code |-> OK, message |-> [text |-> "OK - long running jobs", args |-> <<>>]]

\* p.Fatal(err)
Fatal ==
    /\ code' = UNKNOWN
    /\ message' = NoMessage
    /\ pc' = "exited"

\* jobs, _, err := client.Jobs().List(nil)
LR_ListJobs ==
    /\ probe = "long" /\ pc = "main"
    /\ \/ /\ \E err \in Errors :
               queries' = Append(queries, Query("Jobs.List", <<>>, err))
          /\ Fatal
          /\ UNCHANGED <<i, jobs, longRunningAlloc, allocLog>>
       \/ /\ \E listing \in JobListings : jobs' = listing
          /\ queries' = Append(queries, Query("Jobs.List", <<>>, NIL))
          /\ i' = 1
          /\ pc' = "jobs"
          /\ UNCHANGED <<code, message, longRunningAlloc, allocLog>>
    /\ UNCHANGED <<probe, thresDate>>
    /\ UNCHANGED unplVars
    /\ UNCHANGED input

\* if jobs[i].Status != "running" { continue }
LR_SkipJob ==
    /\ probe = "long" /\ pc = "jobs"
    /\ i <= Len(jobs)
    /\ jobs[i].Status # "running"
    /\ i' = i + 1
    /\ allocLog' = Append(allocLog, [kind |-> "skipped", allocations |-> <<>>])
    /\ UNCHANGED <<probe, pc, queries, code, message, thresDate, jobs, longRunningAlloc>>
    /\ UNCHANGED unplVars
    /\ UNCHANGED input

\* allocations, _, err := client.Jobs().Allocations(jobs[i].ID, true, nil) and the
\* rest of the loop body
LR_Allocations ==
    /\ probe = "long" /\ pc = "jobs"
    /\ i <= Len(jobs)
    /\ jobs[i].Status = "running"
    /\ \/ \E err \in Errors :
            /\ queries' = Append(queries, Query("Jobs.Allocations", <<jobs[i].ID>>, err))
            /\ IF IsJobNotFound(err)
               THEN /\ i' = i + 1
                    /\ allocLog' = Append(allocLog,
                                     [kind |-> "notfound", allocations |-> <<>>])
                    /\ UNCHANGED <<pc, code, message, longRunningAlloc>>
               ELSE /\ longRunningAlloc' = <<>>
                    /\ allocLog' = Append(allocLog,
                                     [kind |-> "error", allocations |-> <<>>])
                    /\ Fatal
                    /\ UNCHANGED i
       \/ \E allocations \in AllocListings(jobs[i].ID) :
            /\ queries' = Append(queries, Query("Jobs.Allocations", <<jobs[i].ID>>, NIL))
            /\ longRunningAlloc' =
                   longRunningAlloc \o CheckAllocations(jobs[i], allocations, thresDate)
            /\ allocLog' = Append(allocLog,
                             [kind |-> "ok", allocations |-> allocations])
            /\ i' = i + 1
            /\ UNCHANGED <<pc, code, message>>
    /\ UNCHANGED <<probe, thresDate, jobs>>
    /\ UNCHANGED unplVars
    /\ UNCHANGED input

\* return longRunningAlloc, nil; main picks the status and exits
LR_Exit ==
    /\ probe = "long" /\ pc = "jobs"
    /\ i > Len(jobs)
    /\ code' = LongExit(longRunningAlloc).code
    /\ message' = LongExit(longRunningAlloc).message
    /\ pc' = "exited"
    /\ UNCHANGED <<probe, queries, i, thresDate, jobs, longRunningAlloc, allocLog>>
    /\ UNCHANGED unplVars
    /\ UNCHANGED input

----------------------------------------------------------------------------
(* check_nomad_unplaceable_jobs: resources *)

\* api.Resources (the fields the probe reads)
Resources(cpu, mem, disk, iops) ==
    [CPU |-> cpu, MemoryMB |-> mem, DiskMB |-> disk, IOPS |-> iops]

ZeroResources == Resources(0, 0, 0, 0)

\* the body of the loop over a task group's tasks, folded over the tasks
RECURSIVE AddTasks(_, _)
AddTasks(total, tasks) ==
    IF tasks = <<>> THEN total
    ELSE LET t == Head(tasks)
         IN  AddTasks([total EXCEPT !.CPU = @ + t.Resources.CPU,
                                    !.MemoryMB = @ + t.Resources.MemoryMB,
                                    !.DiskMB = @ + t.Resources.DiskMB],
                      Tail(tasks))

\* if tg.EphemeralDisk != nil { total.DiskMB += tg.EphemeralDisk.SizeMB }
\* (faulty variant: the ephemeral disk is left out)
AddEphemeralDiskDroppedMut(total, tg) == total
AddEphemeralDisk(total, tg) ==
    IF tg.EphemeralDisk # <<>>
    THEN [total EXCEPT !.DiskMB = @ + tg.EphemeralDisk[1].SizeMB]
    ELSE total

\* the loop over job.TaskGroups
RECURSIVE AddTaskGroups(_, _)
AddTaskGroups(total, tgs) ==
    IF tgs = <<>> THEN total
    ELSE AddTaskGroups(AddTasks(AddEphemeralDisk(total, Head(tgs)), Head(tgs).Tasks),
                       Tail(tgs))

\* getResourcesForJob, given the answer of client.Jobs().Info(jobID, nil):
\* err is NIL or the error, job is <<the job returned>> when err is NIL
getResourcesForJob(job, err) ==
    IF err # NIL
    THEN IF IsJobNotFound(err)
         THEN [status |-> "deleted", resources |-> NIL, err |-> NIL]
         ELSE [status |-> "", resources |-> NIL, err |-> err]
    ELSE [status |-> job[1].Status,
          resources |-> AddTaskGroups(ZeroResources, job[1].TaskGroups),
          err |-> NIL]

\* getResourcesForNode, given the node client.Nodes().Info(id, nil) returned
\* (faulty variant: the reservation is not subtracted)
SubtractIgnoringReservedMut(r, reserved) == r
Subtract(r, reserved) ==
    LET res == IF reserved = <<>> THEN ZeroResources ELSE reserved[1]
    IN  Resources(r.CPU - res.CPU, r.MemoryMB - res.MemoryMB,
                  r.DiskMB - res.DiskMB, r.IOPS - res.IOPS)

getResourcesForNode(node) == Subtract(node.Resources, node.Reserved)

\* the condition of findUnplaceableJobs' inner loop
\* (faulty variant: strict comparison)
DominatesStrictMut(n, j) ==
    /\ n.resources.CPU > j.resources.CPU
    /\ n.resources.MemoryMB > j.resources.MemoryMB
    /\ n.resources.DiskMB > j.resources.DiskMB
Dominates(n, j) ==
    /\ n.resources.CPU >= j.resources.CPU
    /\ n.resources.MemoryMB >= j.resources.MemoryMB
    /\ n.resources.DiskMB >= j.resources.DiskMB

\* findUnplaceableJobs' inner loop: unplaceable stays true unless a node breaks out
RECURSIVE NoNodeFits(_, _)
NoNodeFits(ns, j) ==
    IF ns = <<>> THEN TRUE
    ELSE IF Dominates(Head(ns), j) THEN FALSE
    ELSE NoNodeFits(Tail(ns), j)

RECURSIVE findUnplaceableJobs(_, _)
findUnplaceableJobs(ns, js) ==
    IF js = <<>> THEN <<>>
    ELSE LET rest == findUnplaceableJobs(ns, Tail(js))
         IN  IF NoNodeFits(ns, Head(js)) THEN <<Head(js)>> \o rest ELSE rest

----------------------------------------------------------------------------
(* check_nomad_unplaceable_jobs: the scan *)

JobIDs == {"j1", "j2"}
DimNames == {"cpu", "memory"}
TGNames == {"g1", "g2"}

Task(cpu, mem, disk) == [Resources |-> Resources(cpu, mem, disk, 0)]
TaskGroup(eph, tasks) ==
    [EphemeralDisk |-> eph, Tasks |-> tasks]

\* FailedTGAllocs: task group name -> DimensionExhausted (its keys)
ScanFailed ==
    { <<>>,
      "g1" :> {"cpu"},
      "g1" :> {},
      ("g1" :> {"cpu", "memory"}) @@ ("g2" :> {"cpu"}) }

EvalListings == SeqsUpTo([JobID : JobIDs, FailedTGAllocs : ScanFailed], MaxEvals)

ScanTaskGroups ==
    { <<TaskGroup(<<>>, <<Task(1, 10, 100)>>)>>,
      <<TaskGroup(<<[SizeMB |-> 1000]>>, <<Task(1, 10, 100), Task(2, 20, 200)>>),
        TaskGroup(<<>>, <<Task(2, 20, 200)>>)>> }

ScanJobs == [Status : {"pending", "running"}, TaskGroups : ScanTaskGroups]

NodeListings == {[k \in 1..n |-> [ID |-> k]] : n \in 0..MaxNodes}

ScanNodes ==
    { [Resources |-> Resources(2, 20, 200, 5), Reserved |-> <<>>],
      [Resources |-> Resources(6, 60, 2000, 5), Reserved |-> <<Resources(1, 10, 500, 0)>>] }

failingJob(jobID, dim, resources) ==
    [jobID |-> jobID, dimension |-> dim, resources |-> resources]

\* The orders in which the two range loops over the maps FailedTGAllocs and
\* DimensionExhausted can visit their keys (Go leaves the order unspecified):
\* sequences of <<task group, dimension>>.
DimVisits(failed) ==
    LET dimOrders == {f \in [DOMAIN failed -> UNION {Orderings(failed[g]) : g \in DOMAIN failed}] :
                         \A g \in DOMAIN failed : f[g] \in Orderings(failed[g])}
    IN  {ConcatAll([k \in DOMAIN tgo |->
                      [m \in DOMAIN f[tgo[k]] |-> <<tgo[k], f[tgo[k]][m]>>]]) :
            tgo \in Orderings(DOMAIN failed), f \in dimOrders}

\* the two range loops of getEvaluations' loop body: the records appended
\* (faulty variant: one record per dimension of the evaluation)
EvalRecordsOncePerDimensionMut(eval, resources, visit) ==
    LET first == {k \in DOMAIN visit : \A m \in 1..(k - 1) : visit[m][2] # visit[k][2]}
        RECURSIVE Pick(_)
        Pick(k) == IF k > Len(visit) THEN <<>>
                   ELSE (IF k \in first
                         THEN <<failingJob(eval.JobID, visit[k][2], resources)>>
                         ELSE <<>>) \o Pick(k + 1)
    IN  Pick(1)
EvalRecords(eval, resources, visit) ==
    [k \in DOMAIN visit |-> failingJob(eval.JobID, visit[k][2], resources)]

\* if jobStatus != "pending" { continue }
\* (faulty variant: only deleted jobs are skipped)
SkipsStatusOnlyDeletedMut(jobStatus) == jobStatus = "deleted"
SkipsStatus(jobStatus) == jobStatus # "pending"

\* main: if len(failingJobs) > 0 { nodes, err := getNodes(c) ... }
\* (faulty variant: the nodes are always queried)
NeedsNodesAlwaysMut(fj) == TRUE
NeedsNodes(fj) == Len(fj) > 0

\* main's choice of code and message from the unplaceable records
UnplExit(unpl) ==
    IF Len(unpl) > 0
    THEN [code |-> CRITICAL,
          message |-> [text |-> "CRITICAL - %d unplaceable jobs", args |-> <<Len(unpl)>>]]
    ELSE [code |-> OK, message |-> [text |-> "OK - no unplaceable jobs", args |-> <<>>]]

\* evals, _, err := client.Evaluations().List(nil)
UP_ListEvals ==
    /\ probe = "unplaceable" /\ pc = "main"
    /\ \/ /\ \E err \in Errors :
               queries' = Append(queries, Query("Evaluations.List", <<>>, err))
          /\ Fatal
          /\ UNCHANGED <<i, evals>>
       \/ /\ \E listing \in EvalListings : evals' = listing
          /\ queries' = Append(queries, Query("Evaluations.List", <<>>, NIL))
          /\ i' = 1
          /\ pc' = "evals"
          /\ UNCHANGED <<code, message>>
    /\ UNCHANGED <<probe, failingJobs, origin, jobLog, nodes, mynodes, nodeLog, unplaceable>>
    /\ UNCHANGED longVars
    /\ UNCHANGED input

\* if len(evals[i].FailedTGAllocs) == 0 { continue }
UP_SkipEval ==
    /\ probe = "unplaceable" /\ pc = "evals"
    /\ i <= Len(evals)
    /\ Cardinality(DOMAIN evals[i].FailedTGAllocs) = 0
    /\ i' = i + 1
    /\ jobLog' = Append(jobLog, [kind |-> "skipped", status |-> "", job |-> <<>>,
                                 resources |-> NIL])
    /\ UNCHANGED <<probe, pc, queries, code, message, evals, failingJobs, origin,
                   nodes, mynodes, nodeLog, unplaceable>>
    /\ UNCHANGED longVars
    /\ UNCHANGED input

\* jobStatus, resources, err := getResourcesForJob(client, evals[i].JobID) and the
\* rest of the loop body
UP_Evaluation ==
    /\ probe = "unplaceable" /\ pc = "evals"
    /\ i <= Len(evals)
    /\ Cardinality(DOMAIN evals[i].FailedTGAllocs) # 0
    /\ \E answer \in [job : {<<>>}, err : Errors] \cup [job : {<<j>> : j \in ScanJobs}, err : {NIL}] :
         LET r == getResourcesForJob(answer.job, answer.err)
         IN  /\ queries' = Append(queries, Query("Jobs.Info", <<evals[i].JobID>>, answer.err))
             /\ IF r.err # NIL
                THEN /\ failingJobs' = <<>>
                     /\ jobLog' = Append(jobLog,
                                    [kind |-> "error", status |-> r.status, job |-> <<>>,
                                     resources |-> r.resources])
                     /\ Fatal
                     /\ UNCHANGED <<i, origin>>
                ELSE /\ jobLog' = Append(jobLog,
                                    [kind |-> IF answer.err = NIL THEN "ok" ELSE "notfound",
                                     status |-> r.status, job |-> answer.job,
                                     resources |-> r.resources])
                     /\ i' = i + 1
                     /\ UNCHANGED <<pc, code, message>>
                     /\ IF SkipsStatus(r.status)
                        THEN UNCHANGED <<failingJobs, origin>>
                        ELSE \E visit \in DimVisits(evals[i].FailedTGAllocs) :
                               /\ failingJobs' = failingJobs \o
                                    EvalRecords(evals[i], r.resources, visit)
                               /\ origin' = origin \o
                                    [k \in DOMAIN visit |->
                                       [eval |-> i, tg |-> visit[k][1]]]
    /\ UNCHANGED <<probe, evals, nodes, mynodes, nodeLog, unplaceable>>
    /\ UNCHANGED longVars
    /\ UNCHANGED input

\* return failingJobs, nil (getEvaluations' locals and their history end here);
\* main exits OK when there are none
UP_NoFailingJobs ==
    /\ probe = "unplaceable" /\ pc = "evals"
    /\ i > Len(evals)
    /\ ~NeedsNodes(failingJobs)
    /\ code' = OK
    /\ message' = [text |-> "OK - no unplaceable jobs", args |-> <<>>]
    /\ pc' = "exited"
    /\ evals' = <<>> /\ origin' = <<>> /\ jobLog' = <<>>
    /\ UNCHANGED <<probe, queries, i, failingJobs, nodes, mynodes, nodeLog, unplaceable>>
    /\ UNCHANGED longVars
    /\ UNCHANGED input

\* return failingJobs, nil; getNodes: nodes, _, err := client.Nodes().List(nil)
UP_ListNodes ==
    /\ probe = "unplaceable" /\ pc = "evals"
    /\ i > Len(evals)
    /\ NeedsNodes(failingJobs)
    /\ \/ /\ \E err \in Errors :
               queries' = Append(queries, Query("Nodes.List", <<>>, err))
          /\ Fatal
          /\ UNCHANGED <<i, nodes>>
       \/ /\ \E listing \in NodeListings : nodes' = listing
          /\ queries' = Append(queries, Query("Nodes.List", <<>>, NIL))
          /\ i' = 1
          /\ pc' = "nodes"
          /\ UNCHANGED <<code, message>>
    /\ evals' = <<>> /\ origin' = <<>> /\ jobLog' = <<>>
    /\ UNCHANGED <<probe, failingJobs, mynodes, nodeLog, unplaceable>>
    /\ UNCHANGED longVars
    /\ UNCHANGED input

\* resources, err := getResourcesForNode(client, nodes[i].ID) and the append
UP_Node ==
    /\ probe = "unplaceable" /\ pc = "nodes"
    /\ i <= Len(nodes)
    /\ \/ /\ \E err \in Errors :
               queries' = Append(queries, Query("Nodes.Info", <<nodes[i].ID>>, err))
          /\ mynodes' = <<>>
          /\ Fatal
          /\ UNCHANGED <<i, nodeLog>>
       \/ /\ \E info \in ScanNodes :
               /\ mynodes' = Append(mynodes, [ID |-> nodes[i].ID,
                                              resources |-> getResourcesForNode(info)])
               /\ nodeLog' = Append(nodeLog, info)
          /\ queries' = Append(queries, Query("Nodes.Info", <<nodes[i].ID>>, NIL))
          /\ i' = i + 1
          /\ UNCHANGED <<pc, code, message>>
    /\ UNCHANGED <<probe, evals, failingJobs, origin, jobLog, nodes, unplaceable>>
    /\ UNCHANGED longVars
    /\ UNCHANGED input

\* return mynodes, nil; unplaceable := findUnplaceableJobs(nodes, failingJobs);
\* main picks the status and exits
UP_Exit ==
    /\ probe = "unplaceable" /\ pc = "nodes"
    /\ i > Len(nodes)
    /\ unplaceable' = findUnplaceableJobs(mynodes, failingJobs)
    /\ code' = UnplExit(unplaceable').code
    /\ message' = UnplExit(unplaceable').message
    /\ pc' = "exited"
    /\ UNCHANGED <<probe, queries, i, evals, failingJobs, origin, jobLog, nodes,
                   mynodes, nodeLog>>
    /\ UNCHANGED longVars
    /\ UNCHANGED input

----------------------------------------------------------------------------

Init ==
    /\ probe \in {"long", "unplaceable"}
    /\ pc = "main"
    /\ queries = <<>>
    /\ code = "none"
    /\ message = NoMessage
    /\ i = 0
    /\ thresDate \in {Unix(0, n) : n \in ThresNanos}
    /\ jobs = <<>>
    /\ longRunningAlloc = <<>>
    /\ allocLog = <<>>
    /\ evals = <<>>
    /\ failingJobs = <<>>
    /\ origin = <<>>
    /\ jobLog = <<>>
    /\ nodes = <<>>
    /\ mynodes = <<>>
    /\ nodeLog = <<>>
    /\ unplaceable = <<>>
    /\ input = <<>>

Next ==
    \/ LR_ListJobs
    \/ LR_SkipJob
    \/ LR_Allocations
    \/ LR_Exit
    \/ UP_ListEvals
    \/ UP_SkipEval
    \/ UP_Evaluation
    \/ UP_NoFailingJobs
    \/ UP_ListNodes
    \/ UP_Node
    \/ UP_Exit

Spec == Init /\ [][Next]_vars

----------------------------------------------------------------------------
(* findUnplaceableJobs applied to drawn node and record lists *)

PlaceVals == {1, 2}
PlaceVectors == {Resources(c, m, d, 0) : c \in PlaceVals, m \in PlaceVals, d \in PlaceVals}
PlaceNodes ==
    {[k \in DOMAIN rs |-> [ID |-> k, resources |-> rs[k]]] :
        rs \in SeqsUpTo(PlaceVectors, MaxListLen)}
PlaceDemands ==
    {Resources(1, 1, 1, 0), Resources(2, 1, 1, 0), Resources(1, 2, 1, 0),
     Resources(1, 1, 2, 0), Resources(2, 2, 2, 0)}
PlaceJobs ==
    {[k \in DOMAIN rs |-> failingJob("j1", rs[k].dim, rs[k].res)] :
        rs \in SeqsUpTo([dim : DimNames, res : PlaceDemands], MaxListLen)}

Idle ==
    /\ queries = <<>> /\ code = "none" /\ message = NoMessage /\ i = 0
    /\ thresDate = Unix(0, 0) /\ jobs = <<>> /\ longRunningAlloc = <<>>
    /\ allocLog = <<>> /\ evals = <<>> /\ failingJobs = <<>> /\ origin = <<>>
    /\ jobLog = <<>> /\ nodes = <<>> /\ mynodes = <<>> /\ nodeLog = <<>>
    /\ unplaceable = <<>>

InitPlace ==
    /\ probe = "findUnplaceableJobs"
    /\ pc = "call"
    /\ input \in [nodes : PlaceNodes, jobs : PlaceJobs]
    /\ Idle

PL_Apply ==
    /\ probe = "findUnplaceableJobs" /\ pc = "call"
    /\ mynodes' = input.nodes
    /\ failingJobs' = input.jobs
    /\ unplaceable' = findUnplaceableJobs(input.nodes, input.jobs)
    /\ pc' = "done"
    /\ UNCHANGED <<probe, queries, code, message, i, evals, origin, jobLog, nodes,
                   nodeLog, input>>
    /\ UNCHANGED longVars

NextPlace == PL_Apply

SpecPlace == InitPlace /\ [][NextPlace]_vars

----------------------------------------------------------------------------
(* getResourcesForJob and the loop body of getEvaluations applied to one drawn
   evaluation and one drawn job *)

DemandTasks == {Task(1, 10, 100), Task(2, 20, 200)}
DemandEphemeral == {<<>>, <<[SizeMB |-> 1000]>>}
DemandTaskGroups ==
    {TaskGroup(e, ts) : e \in DemandEphemeral, ts \in SeqsUpTo(DemandTasks, MaxTasks)}
DemandJobs ==
    [Status : {"pending", "running"},
     TaskGroups : SeqsUpTo(DemandTaskGroups, MaxTaskGroups)]

InitDemand ==
    /\ probe = "getEvaluations"
    /\ pc = "call"
    /\ input \in [eval : [JobID : {"j1"}, FailedTGAllocs : ScanFailed \ {<<>>}],
                   job : DemandJobs]
    /\ Idle

DM_Apply ==
    /\ probe = "getEvaluations" /\ pc = "call"
    /\ LET r == getResourcesForJob(<<input.job>>, NIL)
       IN  /\ jobLog' = <<[kind |-> "ok", status |-> r.status, job |-> <<input.job>>,
                         resources |-> r.resources]>>
           /\ IF SkipsStatus(r.status)
              THEN UNCHANGED failingJobs
              ELSE \E visit \in DimVisits(input.eval.FailedTGAllocs) :
                     failingJobs' = EvalRecords(input.eval, r.resources, visit)
    /\ pc' = "done"
    /\ UNCHANGED <<probe, queries, code, message, i, evals, origin, nodes, mynodes,
                   nodeLog, unplaceable, input>>
    /\ UNCHANGED longVars

NextDemand == DM_Apply

SpecDemand == InitDemand /\ [][NextDemand]_vars

----------------------------------------------------------------------------
(* getResourcesForNode applied to one drawn node, and findUnplaceableJobs applied
   to its result and one drawn demand *)

ResVals == 0..MaxRes
NodeTotals == {Resources(c, m, d, io) : c \in ResVals, m \in ResVals, d \in ResVals, io \in ResVals}
NodeInfos == [Resources : NodeTotals, Reserved : {<<>>} \cup {<<r>> : r \in NodeTotals}]
NodeDemands == {Resources(c, m, d, 0) : c \in ResVals, m \in ResVals, d \in ResVals}

InitNode ==
    /\ probe = "getResourcesForNode"
    /\ pc = "call"
    /\ input \in [node : NodeInfos, demand : NodeDemands]
    /\ Idle

ND_Apply ==
    /\ probe = "getResourcesForNode" /\ pc = "call"
    /\ mynodes' = <<[ID |-> 1, resources |-> getResourcesForNode(input.node)]>>
    /\ failingJobs' = <<failingJob("j1", "cpu", input.demand)>>
    /\ unplaceable' = findUnplaceableJobs(mynodes', failingJobs')
    /\ pc' = "done"
    /\ UNCHANGED <<probe, queries, code, message, i, evals, origin, jobLog, nodes,
                   nodeLog, input>>
    /\ UNCHANGED longVars

NextNode == ND_Apply

SpecNode == InitNode /\ [][NextNode]_vars

----------------------------------------------------------------------------
(* Properties: the long-running scan *)

\* the cutoff, in nanoseconds since the epoch
CutoffNanos == thresDate.sec * NanosPerSec + thresDate.nsec

Occurrences(allocID) ==
    Cardinality({k \in DOMAIN longRunningAlloc : longRunningAlloc[k].allocID = allocID})

LongCompleted == probe = "long" /\ pc = "exited" /\ code # UNKNOWN

\* C1: in a long-running scan that completes without a fatal error, every
\* allocation returned for a job listed as "running" is in the result exactly once
\* when its creation time is strictly before the cutoff and not at all otherwise,
\* and every record of the result is such an allocation of a "running" job.
C1_LongRunningExactlyOnce ==
    LongCompleted =>
        /\ \A j \in DOMAIN jobs : \A a \in DOMAIN allocLog[j].allocations :
             LET A == allocLog[j].allocations[a]
             IN  /\ jobs[j].Status = "running"
                 /\ Occurrences(A.ID) = IF A.CreateTime < CutoffNanos THEN 1 ELSE 0
        /\ \A k \in DOMAIN longRunningAlloc :
             \E j \in DOMAIN jobs : \E a \in DOMAIN allocLog[j].allocations :
                 LET A == allocLog[j].allocations[a]
                 IN  /\ jobs[j].Status = "running"
                     /\ longRunningAlloc[k].jobID = jobs[j].ID
                     /\ longRunningAlloc[k].allocID = A.ID
                     /\ A.CreateTime < CutoffNanos

\* a completed scan that kept one allocation, dropped one created exactly at the
\* cutoff, and listed a job that is not running
C1_Witness ==
    /\ LongCompleted
    /\ Len(longRunningAlloc) = 1
    /\ \E j \in DOMAIN jobs : jobs[j].Status # "running"
    /\ \E j \in DOMAIN jobs : \E a \in DOMAIN allocLog[j].allocations :
         allocLog[j].allocations[a].CreateTime = CutoffNanos

\* the records the processed jobs contribute when a job that was not found
\* contributes nothing
AllocationsBefore(j) ==
    LET as == allocLog[j].allocations
        keep == {a \in DOMAIN as : as[a].CreateTime < CutoffNanos}
        RECURSIVE Pick(_)
        Pick(a) == IF a > Len(as) THEN <<>>
                   ELSE (IF a \in keep THEN <<as[a].ID>> ELSE <<>>) \o Pick(a + 1)
    IN  Pick(1)

RunningIDs ==
    LET RECURSIVE Pick(_)
        Pick(j) == IF j > Len(jobs) THEN <<>>
                   ELSE (IF jobs[j].Status = "running" THEN <<jobs[j].ID>> ELSE <<>>)
                        \o Pick(j + 1)
    IN  Pick(1)

QueryIDs(op) ==
    LET RECURSIVE Pick(_)
        Pick(k) == IF k > Len(queries) THEN <<>>
                   ELSE (IF queries[k].op = op THEN queries[k].id ELSE <<>>) \o Pick(k + 1)
    IN  Pick(1)

\* C5: an allocation fetch that fails with "job not found" does not end the scan;
\* the job contributes no record, the records of the jobs before it are kept, and
\* the running jobs after it are still fetched and classified as without it.
C5_JobNotFoundIsSkipped ==
    probe = "long" =>
        /\ \A k \in DOMAIN queries :
             (queries[k].op = "Jobs.Allocations" /\ queries[k].err = ErrJobNotFound) =>
                 /\ ~(k = Len(queries) /\ pc = "exited" /\ code = UNKNOWN)
                 /\ \A r \in DOMAIN longRunningAlloc :
                      longRunningAlloc[r].jobID # queries[k].id[1]
        /\ (pc = "jobs" \/ LongCompleted) =>
              [r \in DOMAIN longRunningAlloc |-> longRunningAlloc[r].allocID]
                  = ConcatAll([j \in DOMAIN allocLog |-> AllocationsBefore(j)])
        /\ LongCompleted => QueryIDs("Jobs.Allocations") = RunningIDs

\* the first job was not found, the second was fetched and gave a record
C5_Witness ==
    /\ LongCompleted
    /\ Len(jobs) = 2
    /\ allocLog[1].kind = "notfound"
    /\ allocLog[2].kind = "ok"
    /\ Len(longRunningAlloc) >= 1

----------------------------------------------------------------------------
(* Properties: exit status and errors, both probes *)

\* C3: a scan that completes without a fatal error exits OK when its result is
\* empty (also when there is no failing job record at all), and WARNING
\* (long-running) or CRITICAL (unplaceable) with the length of the result in the
\* message when it is not.
C3_StatusFromCount ==
    (pc = "exited" /\ code # UNKNOWN) =>
        /\ probe = "long" =>
             /\ Len(longRunningAlloc) = 0 => code = OK /\ message.args = <<>>
             /\ Len(longRunningAlloc) >= 1 =>
                  code = WARNING /\ message.args = <<Len(longRunningAlloc)>>
        /\ probe = "unplaceable" =>
             /\ Len(unplaceable) = 0 => code = OK /\ message.args = <<>>
             /\ Len(unplaceable) >= 1 =>
                  code = CRITICAL /\ message.args = <<Len(unplaceable)>>
             /\ failingJobs = <<>> => code = OK

C3_Witness ==
    /\ probe = "long" /\ pc = "exited"
    /\ code = WARNING
    /\ Len(longRunningAlloc) = 2

\* the result of the function the failed query was issued in
NoPartialResult(op) ==
    CASE op \in {"Jobs.List", "Jobs.Allocations"} -> longRunningAlloc = <<>>
      [] op \in {"Evaluations.List", "Jobs.Info"} -> failingJobs = <<>>
      [] op \in {"Nodes.List", "Nodes.Info"} -> mynodes = <<>> /\ unplaceable = <<>>

\* C4: a query that fails with an error other than "job not found" is the last
\* query issued; the function it was issued in returns no records and the process
\* has ended UNKNOWN.
C4_ErrorIsFatal ==
    \A k \in DOMAIN queries :
        queries[k].err = ErrOther =>
            /\ k = Len(queries)
            /\ pc = "exited"
            /\ code = UNKNOWN
            /\ NoPartialResult(queries[k].op)

\* the detail query of the second node failed after the first had answered
C4_Witness ==
    /\ probe = "unplaceable"
    /\ Len(queries) >= 1
    /\ queries[Len(queries)].op = "Nodes.Info"
    /\ queries[Len(queries)].err = ErrOther
    /\ i = 2
    /\ code = UNKNOWN

----------------------------------------------------------------------------
(* Properties: getEvaluations *)

InEvaluations == probe = "unplaceable" /\ pc = "evals"

\* C6: every failing job record comes from an evaluation with at least one failed
\* task-group allocation whose job was found with status "pending"; an evaluation
\* whose job is not found resolves to "deleted", gives no record and does not end
\* the scan, and the evaluations after it are still processed.
C6_RecordsOnlyFromPendingJobs ==
    /\ InEvaluations =>
         /\ Len(origin) = Len(failingJobs)
         /\ \A k \in DOMAIN failingJobs :
              LET e == origin[k].eval
              IN  /\ e \in DOMAIN evals /\ e \in DOMAIN jobLog
                  /\ DOMAIN evals[e].FailedTGAllocs # {}
                  /\ failingJobs[k].jobID = evals[e].JobID
                  /\ jobLog[e].kind = "ok"
                  /\ jobLog[e].job[1].Status = "pending"
         /\ \A e \in DOMAIN jobLog :
              jobLog[e].kind = "notfound" =>
                  /\ jobLog[e].status = "deleted"
                  /\ \A k \in DOMAIN origin : origin[k].eval # e
         /\ i = Len(jobLog) + 1
    /\ probe = "unplaceable" =>
         \A k \in DOMAIN queries :
             (queries[k].op = "Jobs.Info" /\ queries[k].err = ErrJobNotFound) =>
                 ~(k = Len(queries) /\ pc = "exited" /\ code = UNKNOWN)

\* the job of the first evaluation was not found, the second evaluation gave records
C6_Witness ==
    /\ InEvaluations
    /\ Len(evals) = 2 /\ i > Len(evals)
    /\ jobLog[1].kind = "notfound"
    /\ jobLog[2].kind = "ok"
    /\ Len(failingJobs) >= 1

RecordsOf(J, D) ==
    {k \in DOMAIN failingJobs : failingJobs[k].jobID = J /\ failingJobs[k].dimension = D}

\* the (evaluation, failed task group) pairs processed so far whose job was found
\* pending and whose exhausted dimensions name D
ExhaustedPairs(J, D) ==
    {p \in (DOMAIN jobLog) \X TGNames :
        /\ evals[p[1]].JobID = J
        /\ jobLog[p[1]].kind = "ok"
        /\ jobLog[p[1]].job[1].Status = "pending"
        /\ p[2] \in DOMAIN evals[p[1]].FailedTGAllocs
        /\ D \in evals[p[1]].FailedTGAllocs[p[2]]}

\* C7 as claimed: no two failing job records have the same job ID and the same
\* dimension (one record per (job, exhausted dimension) pair).
C7_OneRecordPerJobAndDimension ==
    InEvaluations =>
        \A J \in JobIDs, D \in DimNames :
            Cardinality(RecordsOf(J, D)) = IF ExhaustedPairs(J, D) = {} THEN 0 ELSE 1

\* C7 as amended: there is one failing job record per (evaluation, failed task
\* group, exhausted dimension) of a pending job, so the records with job J and
\* dimension D are as many as the (evaluation of J, failed task group) pairs that
\* name D.
C7_OneRecordPerEvaluationTaskGroupAndDimension ==
    InEvaluations =>
        \A J \in JobIDs, D \in DimNames :
            Cardinality(RecordsOf(J, D)) = Cardinality(ExhaustedPairs(J, D))

\* two task groups of one evaluation exhausted on the same dimension: two records
C7_Witness ==
    /\ InEvaluations
    /\ i > Len(evals)
    /\ \E J \in JobIDs, D \in DimNames : Cardinality(RecordsOf(J, D)) >= 2

----------------------------------------------------------------------------
(* Properties: the order of the unplaceable probe's queries *)

QueryRank(op) ==
    CASE op = "Evaluations.List" -> 1
      [] op = "Jobs.Info" -> 2
      [] op = "Nodes.List" -> 3
      [] op = "Nodes.Info" -> 4

NodeQueries == {k \in DOMAIN queries : queries[k].op \in {"Nodes.List", "Nodes.Info"}}

\* the job IDs of the evaluations with failed task-group allocations among the
\* first n listed
FailedEvalIDs(n) ==
    LET RECURSIVE Pick(_)
        Pick(e) == IF e > n THEN <<>>
                   ELSE (IF DOMAIN evals[e].FailedTGAllocs # {}
                         THEN <<evals[e].JobID>> ELSE <<>>) \o Pick(e + 1)
    IN  Pick(1)

QueryOrder ==
    probe = "unplaceable" =>
      LET jobInfos == QueryIDs("Jobs.Info")
          nodeInfos == QueryIDs("Nodes.Info")
      IN
        /\ \A k \in DOMAIN queries : (k = 1) <=> (queries[k].op = "Evaluations.List")
        /\ \A k \in 1..(Len(queries) - 1) :
             QueryRank(queries[k].op) <= QueryRank(queries[k + 1].op)
        /\ Cardinality({k \in DOMAIN queries : queries[k].op = "Nodes.List"}) <= 1
        /\ (pc = "evals" \/ (pc = "exited" /\ evals # <<>>)) =>
             /\ NodeQueries = {}
             /\ jobInfos = FailedEvalIDs(Len(jobLog))
        /\ nodeInfos = [k \in 1..Len(nodeInfos) |-> nodes[k].ID]
        /\ (pc = "exited" /\ code \in {OK, CRITICAL} /\ failingJobs # <<>>) =>
             Len(nodeInfos) = Len(nodes)
        /\ failingJobs = <<>> => NodeQueries = {}
        /\ (pc = "exited" /\ failingJobs = <<>> /\ code # UNKNOWN) => code = OK

\* the step that issues the first node query is taken with every evaluation
\* processed and at least one failing job record; the step that returns from
\* getEvaluations with no record exits OK and issues no query
NodesAfterEvaluations ==
    (probe = "unplaceable" /\ pc = "evals") =>
        /\ (\E k \in DOMAIN queries' : queries'[k].op \in {"Nodes.List", "Nodes.Info"}) =>
             /\ Len(jobLog) = Len(evals)
             /\ QueryIDs("Jobs.Info") = FailedEvalIDs(Len(evals))
             /\ failingJobs # <<>>
        /\ (i > Len(evals) /\ failingJobs = <<>>) =>
             /\ pc' = "exited" /\ code' = OK /\ queries' = queries

\* C10: the unplaceable probe queries in the order list evaluations, one job
\* detail per evaluation with failed task-group allocations (in listing order),
\* list nodes, one node detail per listed node (in listing order); no node query
\* comes before every evaluation is processed; with no failing job record no node
\* query is issued and the probe exits OK.
C10_QueryOrder == [](QueryOrder) /\ [][NodesAfterEvaluations]_vars

\* a completed run with two job-detail queries and two node-detail queries
C10_Witness ==
    /\ probe = "unplaceable" /\ pc = "exited" /\ code = CRITICAL
    /\ Len(QueryIDs("Jobs.Info")) = 2
    /\ Len(QueryIDs("Nodes.Info")) = 2

----------------------------------------------------------------------------
(* Properties: findUnplaceableJobs on drawn arguments *)

\* no node of the drawn list has cpu, memory and disk all at least F's
NoNodeDominates(F) ==
    \A n \in DOMAIN input.nodes :
        \/ input.nodes[n].resources.CPU < F.resources.CPU
        \/ input.nodes[n].resources.MemoryMB < F.resources.MemoryMB
        \/ input.nodes[n].resources.DiskMB < F.resources.DiskMB

\* C2: findUnplaceableJobs returns, in order, exactly the records that no node
\* dominates on cpu, memory and disk (inclusive comparison, whatever the record's
\* dimension); with no node it returns every record.
C2_UnplaceableIffNoNodeDominates ==
    (probe = "findUnplaceableJobs" /\ pc = "done") =>
        /\ unplaceable = SelectSeq(input.jobs, NoNodeDominates)
        /\ input.nodes = <<>> => unplaceable = input.jobs

\* a record that ties with a node on all three dimensions is left out, a record
\* exhausted on memory that only lacks cpu is returned
C2_Witness ==
    /\ probe = "findUnplaceableJobs" /\ pc = "done"
    /\ Len(input.jobs) = 2 /\ Len(unplaceable) = 1
    /\ \E n \in DOMAIN input.nodes : input.nodes[n].resources = input.jobs[1].resources
    /\ unplaceable[1].dimension = "memory"
    /\ \E n \in DOMAIN input.nodes :
         /\ input.nodes[n].resources.CPU < unplaceable[1].resources.CPU
         /\ input.nodes[n].resources.MemoryMB >= unplaceable[1].resources.MemoryMB
         /\ input.nodes[n].resources.DiskMB >= unplaceable[1].resources.DiskMB

----------------------------------------------------------------------------
(* Properties: getResourcesForJob on a drawn job *)

AllTasks(job) == ConcatAll([g \in DOMAIN job.TaskGroups |-> job.TaskGroups[g].Tasks])

EphemeralSizes(job) ==
    [g \in DOMAIN job.TaskGroups |->
        IF job.TaskGroups[g].EphemeralDisk = <<>> THEN 0
        ELSE job.TaskGroups[g].EphemeralDisk[1].SizeMB]

Demand(job) ==
    LET ts == AllTasks(job)
    IN  [CPU |-> SumSeq([t \in DOMAIN ts |-> ts[t].Resources.CPU]),
         MemoryMB |-> SumSeq([t \in DOMAIN ts |-> ts[t].Resources.MemoryMB]),
         DiskMB |-> SumSeq([t \in DOMAIN ts |-> ts[t].Resources.DiskMB])
                    + SumSeq(EphemeralSizes(job))]

SameDemand(r, d) == r.CPU = d.CPU /\ r.MemoryMB = d.MemoryMB /\ r.DiskMB = d.DiskMB

\* C8: the demand getResourcesForJob computes for a found job is the sum over
\* every task of every task group of cpu, of memory, and of disk plus the
\* ephemeral-disk size of each task group that has one; every failing job record
\* of the job carries that whole-job demand.
C8_DemandIsWholeJobSum ==
    (probe = "getEvaluations" /\ pc = "done") =>
        LET d == Demand(input.job)
        IN  /\ SameDemand(jobLog[1].resources, d)
            /\ jobLog[1].status = input.job.Status
            /\ \A k \in DOMAIN failingJobs : SameDemand(failingJobs[k].resources, d)

\* a pending job of two task groups, one with an ephemeral disk and one without,
\* three tasks in all, and an evaluation that gave three records
C8_Witness ==
    /\ probe = "getEvaluations" /\ pc = "done"
    /\ Len(failingJobs) = 3
    /\ Len(input.job.TaskGroups) = 2
    /\ input.job.TaskGroups[1].EphemeralDisk # <<>>
    /\ input.job.TaskGroups[2].EphemeralDisk = <<>>
    /\ Len(AllTasks(input.job)) = 3
    /\ failingJobs[1].resources.DiskMB > 1000

----------------------------------------------------------------------------
(* Properties: getResourcesForNode on a drawn node *)

ReservedOrZero(node) == IF node.Reserved = <<>> THEN ZeroResources ELSE node.Reserved[1]

\* C9: a node's capacity is total minus reserved on cpu, memory, disk and iops,
\* a missing reserved record counting as zero; a field is non-negative when the
\* reservation is at most the total and negative when it exceeds it, and a node
\* with a negative cpu, memory or disk field dominates no demand that is
\* non-negative there.
C9_CapacityIsTotalMinusReserved ==
    (probe = "getResourcesForNode" /\ pc = "done") =>
        LET cap == mynodes[1].resources
            tot == input.node.Resources
            res == ReservedOrZero(input.node)
        IN  /\ cap.CPU = tot.CPU - res.CPU
            /\ cap.MemoryMB = tot.MemoryMB - res.MemoryMB
            /\ cap.DiskMB = tot.DiskMB - res.DiskMB
            /\ cap.IOPS = tot.IOPS - res.IOPS
            /\ input.node.Reserved = <<>> => cap = tot
            /\ \A f \in {"CPU", "MemoryMB", "DiskMB", "IOPS"} :
                 /\ res[f] <= tot[f] => cap[f] >= 0
                 /\ res[f] > tot[f] => cap[f] < 0
            /\ \A f \in {"CPU", "MemoryMB", "DiskMB"} :
                 (res[f] > tot[f] /\ input.demand[f] >= 0) => unplaceable = failingJobs

\* the reservation exceeds the total on cpu only, and the demand asks for nothing
C9_Witness ==
    /\ probe = "getResourcesForNode" /\ pc = "done"
    /\ input.node.Reserved # <<>>
    /\ ReservedOrZero(input.node).CPU > input.node.Resources.CPU
    /\ ReservedOrZero(input.node).MemoryMB <= input.node.Resources.MemoryMB
    /\ ReservedOrZero(input.node).DiskMB <= input.node.Resources.DiskMB
    /\ input.demand = Resources(0, 0, 0, 0)
    /\ mynodes[1].resources.CPU < 0
    /\ Len(unplaceable) = 1

====
